---- MODULE Spec2Model ----
(***************************************************************************)
(* Rate limiting and usage accounting of the mornGPT commercial API.       *)
(*                                                                         *)
(* api/rate_limiter.py  RateLimiter: in-memory cache over the rate_limits  *)
(*                      table, fixed minute / hour / day windows.          *)
(* api/billing.py       BillingManager: usage ledger (usage_stats),        *)
(*                      billing cycles, bills, payments, plans.            *)
(* api/main.py          HTTP middleware that meters API-key requests.      *)
(* api/routers/*.py     module endpoints.                                  *)
(*                                                                         *)
(* Time is the wall clock in whole seconds, the server running in UTC; the *)
(* microsecond of datetime.now() is an input of the call that reads it.    *)
(* Money is counted in thousandths of a dollar (0.02 USD = 20).            *)
(***************************************************************************)
EXTENDS Integers, Sequences, FiniteSets, TLC

VARIABLES
    now,               \* wall clock (datetime.now() / time.time()), seconds
    cache,             \* RateLimiter.cache[user_id][window_type]
    cache_timestamps,  \* RateLimiter.cache_timestamps[user_id][window_type]
    rate_limits,       \* rows of table rate_limits, in insertion order
    users,             \* table users: user id -> plan
    usage_stats,       \* rows of table usage_stats (the usage ledger)
    billing_cycles,    \* rows of table billing_cycles, row i has id i
    payments,          \* rows of table payments
    req,               \* HTTP requests in flight: position and outcome
    issued,            \* history: per (user, window type) what was recorded
    last,              \* history: the last library call and what it returned
    billed,            \* history: the last bill calculate_bill returned
    model_version,     \* BaseSubmodule.model_version of each submodule
    upgraded,          \* history: the version upgrade_model last set, 0
                       \* for none or once a call named another version
    nops,              \* number of library calls / requests made so far
    nticks             \* number of clock advances so far

vars == <<now, cache, cache_timestamps, rate_limits, users, usage_stats,
          billing_cycles, payments, req, issued, last, billed, model_version,
          upgraded, nops, nticks>>

----------------------------------------------------------------------------
(* Bounds of the model *)

MaxOps == 3
MaxTicks == 1
MaxReq == 2

(* Program constants *)

SecondsPerMinute == 60
SecondsPerHour == 3600
SecondsPerDay == 86400

\* the clock starts on day 1 at 00:58:59
InitNow == SecondsPerDay + SecondsPerHour - SecondsPerMinute - 1

\* the last second of January, 31 January 23:59:59
MonthEnd == 32 * SecondsPerDay - 1

\* the clocks at which the window model starts: the last second of a
\* minute, a midnight, the last second of a day
WindowClocks == {InitNow, SecondsPerDay, MonthEnd}

\* the clocks at which the billing model starts
BillingClocks == {InitNow, MonthEnd}

\* values of datetime.now().microsecond
Microseconds == {0, 500000}

\* clock advances that the model offers
Deltas == {1, SecondsPerMinute, SecondsPerHour, SecondsPerDay}

\* clock advances that the billing model offers: into the next second
\* (from MonthEnd, the next month) and into the next day
BillingDeltas == {1, SecondsPerDay}

Users == {1, 2}
\* a user id that has no row in table users
NoUser == Cardinality(Users) + 1
UserArgs == Users \cup {NoUser}
\* the users whose calls the rate limiter model explores
Callers == {1}

\* plan strings passed by callers; "bogus_plan" is not in the catalog
PlanArgs == {"free", "starter", "bogus_plan"}

\* module codes and submodule ids of MornGPT that the model holds, and
\* the ones callers pass: "x" is no module code, 10 is no submodule id
ModuleCodes == {"h", "q"}
ModuleCodeArgs == ModuleCodes \cup {"x"}
SubmoduleIds == {1, 2}
SubmoduleIdArgs == SubmoduleIds \cup {10}

\* model versions passed by callers; 0 and 10 are outside 1..9
VersionArgs == {0, 1, 5, 9, 10}

\* window_type strings passed by callers
WindowArgs == {"requests_per_minute", "minute", "hour", "day"}
\* all the keys the cache can hold
WindowKeys == {"requests_per_minute", "requests_per_hour", "requests_per_day",
               "minute", "hour", "day"}
\* values of the module argument of track_usage; "billing" has no price in
\* MODULE_PRICING
ModuleArgs == {"growth_advisory", "billing"}

\* values of the amount argument of process_payment
AmountArgs == {9990}

\* values of the count argument of increment_usage
CountArgs == {1, 10}

\* the value standing for "raise ValueError" in _get_window_start
ValueError == 0 - 1

----------------------------------------------------------------------------
(* api/rate_limiter.py *)

RATE_LIMITS ==
    [ free         |-> [requests_per_minute |-> 10,   requests_per_hour |-> 100,
                        requests_per_day |-> 1000],
      starter      |-> [requests_per_minute |-> 60,   requests_per_hour |-> 1000,
                        requests_per_day |-> 10000],
      professional |-> [requests_per_minute |-> 300,  requests_per_hour |-> 10000,
                        requests_per_day |-> 100000],
      enterprise   |-> [requests_per_minute |-> 1000, requests_per_hour |-> 50000,
                        requests_per_day |-> 1000000] ]

\* limits.items(): the keys of a plan's limits in dict order
LimitOrder == <<"requests_per_minute", "requests_per_hour", "requests_per_day">>

\* variant of get_window_start: the hour window keeps the minutes
get_window_start_hour_keeps_minutes(window_type, t) ==
    IF window_type \in {"minute", "hour"} THEN t - (t % SecondsPerMinute)
    ELSE IF window_type = "day" THEN t - (t % SecondsPerDay)
    ELSE ValueError

\* RateLimiter._get_window_start, at clock t
get_window_start(window_type, t) ==
    IF window_type = "minute" THEN t - (t % SecondsPerMinute)
    ELSE IF window_type = "hour" THEN t - (t % SecondsPerHour)
    ELSE IF window_type = "day" THEN t - (t % SecondsPerDay)
    ELSE ValueError

\* RateLimiter._get_reset_time, at clock t
get_reset_time(window_type, t) ==
    IF window_type = "requests_per_minute"
        THEN (t - (t % SecondsPerMinute)) + SecondsPerMinute
    ELSE IF window_type = "requests_per_hour"
        THEN (t - (t % SecondsPerHour)) + SecondsPerHour
    ELSE IF window_type = "requests_per_day"
        THEN (t - (t % SecondsPerDay)) + SecondsPerDay
    ELSE t

RECURSIVE SumCounts(_, _, _, _)
\* SELECT SUM(request_count) FROM rate_limits WHERE user_id, window_type, window_start
SumCounts(rows, u, window_type, ws) ==
    IF rows = <<>> THEN 0
    ELSE (IF Head(rows).user_id = u /\ Head(rows).window_type = window_type
             /\ Head(rows).window_start = ws
          THEN Head(rows).request_count ELSE 0)
         + SumCounts(Tail(rows), u, window_type, ws)

\* RateLimiter._get_database_count (result[0] or 0), for a valid window type
get_database_count(rows, u, window_type, t) ==
    SumCounts(rows, u, window_type, get_window_start(window_type, t))

\* does the UPDATE of _update_database_usage match a row
RowMatches(row, u, window_type, ws) ==
    /\ row.user_id = u
    /\ row.window_type = window_type
    /\ row.window_start = ws

\* variant of update_database_usage: the UPDATE sets request_count to the
\* increment instead of adding it
update_database_usage_overwrite(rows, u, window_type, count, t, storeFails) ==
    LET ws == get_window_start(window_type, t)
        hit == \E i \in 1..Len(rows) : RowMatches(rows[i], u, window_type, ws)
    IN  IF ws = ValueError \/ storeFails THEN rows
        ELSE IF hit
            THEN [i \in 1..Len(rows) |->
                    IF RowMatches(rows[i], u, window_type, ws)
                    THEN [rows[i] EXCEPT !.request_count = count]
                    ELSE rows[i]]
        ELSE Append(rows, [user_id |-> u, window_type |-> window_type,
                           window_start |-> ws, request_count |-> count])

\* variant of update_database_usage: every call inserts a row
update_database_usage_insert_only(rows, u, window_type, count, t, storeFails) ==
    LET ws == get_window_start(window_type, t)
    IN  IF ws = ValueError \/ storeFails THEN rows
        ELSE Append(rows, [user_id |-> u, window_type |-> window_type,
                           window_start |-> ws, request_count |-> count])

\* RateLimiter._update_database_usage: the rows after the call.  storeFails
\* is an exception raised by sqlite inside the try block; like the
\* ValueError of _get_window_start it is logged and rolled back.
update_database_usage(rows, u, window_type, count, t, storeFails) ==
    LET ws == get_window_start(window_type, t)
        hit == \E i \in 1..Len(rows) : RowMatches(rows[i], u, window_type, ws)
    IN  IF ws = ValueError \/ storeFails THEN rows
        ELSE IF hit
            THEN [i \in 1..Len(rows) |->
                    IF RowMatches(rows[i], u, window_type, ws)
                    THEN [rows[i] EXCEPT !.request_count = @ + count]
                    ELSE rows[i]]
        ELSE Append(rows, [user_id |-> u, window_type |-> window_type,
                           window_start |-> ws, request_count |-> count])

\* did the durable write of increment_usage commit
DurableWriteOk(window_type, t, storeFails) ==
    get_window_start(window_type, t) # ValueError /\ ~storeFails

\* RateLimiter._cleanup_cache at clock t: the cache and timestamps after it,
\* or raised = TRUE when _get_window_start raised before anything was touched
cleanup_cache(c, ts, u, window_type, t) ==
    LET window_timestamp == get_window_start(window_type, t)
    IN  IF window_timestamp = ValueError
            THEN [raised |-> TRUE, cache |-> c, ts |-> ts]
        ELSE IF ts[u][window_type] < window_timestamp
            THEN [raised |-> FALSE,
                  cache |-> [c EXCEPT ![u][window_type] = 0],
                  ts |-> [ts EXCEPT ![u][window_type] = t]]
        ELSE [raised |-> FALSE, cache |-> c, ts |-> ts]

RECURSIVE check_windows(_, _, _, _, _, _, _, _)
\* the loop of RateLimiter.check_rate_limit over the windows ws still to
\* check; usage is current_usage as built so far
check_windows(rows, u, limits, ws, c, ts, usage, t) ==
    IF ws = <<>>
    THEN [outcome |-> "allowed", window_type |-> "none", limit |-> 0,
          current |-> 0, reset_time |-> 0, usage |-> usage,
          cache |-> c, ts |-> ts]
    ELSE
        LET window_type == Head(ws)
            limit == limits[window_type]
            cl == cleanup_cache(c, ts, u, window_type, t)
            cached == cl.cache[u][window_type]
            current_count ==
                IF cached = 0 THEN get_database_count(rows, u, window_type, t)
                ELSE cached
            c2 == IF cached = 0
                  THEN [cl.cache EXCEPT ![u][window_type] = current_count]
                  ELSE cl.cache
            ts2 == IF cached = 0
                   THEN [cl.ts EXCEPT ![u][window_type] = t]
                   ELSE cl.ts
            entry == [window_type |-> window_type, current |-> current_count,
                      limit |-> limit,
                      remaining |-> IF limit - current_count > 0
                                    THEN limit - current_count ELSE 0]
        IN  IF cl.raised
            THEN [outcome |-> "ValueError", window_type |-> window_type,
                  limit |-> 0, current |-> 0, reset_time |-> 0,
                  usage |-> usage, cache |-> c, ts |-> ts]
            ELSE IF current_count >= limit
            THEN [outcome |-> "denied", window_type |-> window_type,
                  limit |-> limit, current |-> current_count,
                  reset_time |-> get_reset_time(window_type, t),
                  usage |-> Append(usage, entry), cache |-> c2, ts |-> ts2]
            ELSE check_windows(rows, u, limits, Tail(ws), c2, ts2,
                               Append(usage, entry), t)

\* variant of check_rate_limit: an unknown plan is checked as the free plan
check_rate_limit_default_free(rows, c, ts, u, plan, t) ==
    check_windows(rows, u,
                  IF plan \in DOMAIN RATE_LIMITS THEN RATE_LIMITS[plan]
                  ELSE RATE_LIMITS["free"],
                  LimitOrder, c, ts, <<>>, t)

\* RateLimiter.check_rate_limit(user_id, plan) at clock t: what it returns or
\* raises, and the cache it leaves
check_rate_limit(rows, c, ts, u, plan, t) ==
    IF plan \notin DOMAIN RATE_LIMITS
    THEN [outcome |-> "HTTP400", window_type |-> "none", limit |-> 0,
          current |-> 0, reset_time |-> 0, usage |-> <<>>,
          cache |-> c, ts |-> ts]
    ELSE check_windows(rows, u, RATE_LIMITS[plan], LimitOrder, c, ts, <<>>, t)

RECURSIVE stats_windows(_, _, _, _, _, _, _, _)
\* the loop of RateLimiter.get_user_usage_stats over the windows ws still to
\* report; stats is the dict as built so far.  Unlike check_rate_limit the
\* loop does not store the database count in the cache.
stats_windows(rows, u, limits, ws, c, ts, stats, t) ==
    IF ws = <<>>
    THEN [outcome |-> "stats", stats |-> stats, cache |-> c, ts |-> ts]
    ELSE
        LET window_type == Head(ws)
            limit == limits[window_type]
            cl == cleanup_cache(c, ts, u, window_type, t)
            cached == cl.cache[u][window_type]
            current_count ==
                IF cached = 0 THEN get_database_count(rows, u, window_type, t)
                ELSE cached
            entry == [window_type |-> window_type, current |-> current_count,
                      limit |-> limit,
                      remaining |-> IF limit - current_count > 0
                                    THEN limit - current_count ELSE 0,
                      reset_time |-> get_reset_time(window_type, t)]
        IN  IF cl.raised
            THEN [outcome |-> "ValueError", stats |-> stats, cache |-> c,
                  ts |-> ts]
            ELSE stats_windows(rows, u, limits, Tail(ws), cl.cache, cl.ts,
                               Append(stats, entry), t)

\* RateLimiter.get_user_usage_stats(user_id, plan) at clock t: what it
\* returns or raises, and the cache it leaves
get_user_usage_stats(rows, c, ts, u, plan, t) ==
    IF plan \notin DOMAIN RATE_LIMITS
    THEN [outcome |-> "HTTP400", stats |-> <<>>, cache |-> c, ts |-> ts]
    ELSE stats_windows(rows, u, RATE_LIMITS[plan], LimitOrder, c, ts, <<>>, t)

\* the cache and timestamps after the first two statements of
\* RateLimiter.increment_usage
increment_cache(c, u, window_type, count) ==
    [c EXCEPT ![u][window_type] = @ + count]

\* cache_timestamps after RateLimiter.increment_usage
increment_timestamp(ts, u, window_type, t) ==
    [ts EXCEPT ![u][window_type] = t]

\* variant of delete_user_rows: the DELETE has no WHERE clause
delete_every_row(rows, u) ==
    SelectSeq(rows, LAMBDA r : FALSE)

\* rows of rate_limits after the DELETE of RateLimiter.reset_user_limits
delete_user_rows(rows, u) ==
    SelectSeq(rows, LAMBDA r : r.user_id # u)

----------------------------------------------------------------------------
(* api/billing.py *)

PRICING_TIERS ==
    [ free         |-> [monthly_calls |-> 100,    price_per_call |-> 0,
                        monthly_fee |-> 0],
      starter      |-> [monthly_calls |-> 1000,   price_per_call |-> 10,
                        monthly_fee |-> 9990],
      professional |-> [monthly_calls |-> 10000,  price_per_call |-> 5,
                        monthly_fee |-> 49990],
      enterprise   |-> [monthly_calls |-> 100000, price_per_call |-> 2,
                        monthly_fee |-> 199990] ]

MODULE_PRICING ==
    [ growth_advisory |-> 20, interview_job |-> 15, coder |-> 25,
      content_detection |-> 30, medical_advice |-> 40, multi_gpt |-> 35,
      housing |-> 20, person_matching |-> 25, teacher_coach |-> 20,
      traveling |-> 20, product_search |-> 15, clothing |-> 20,
      restaurant_food |-> 20, content_generation |-> 50,
      anti_ai_protection |-> 100 ]

\* variant of module_cost: a module without a price costs nothing
module_cost_free_default(module) ==
    IF module \in DOMAIN MODULE_PRICING THEN MODULE_PRICING[module] ELSE 0

\* MODULE_PRICING.get(module, 0.01)
module_cost(module) ==
    IF module \in DOMAIN MODULE_PRICING THEN MODULE_PRICING[module] ELSE 10

\* The calendar.  Day 0 of the clock is a 31 December; the set holds the
\* days on which the following months start (1 January, 1 February, ...).
MonthStarts == {1, 32, 60, 91, 121}

\* datetime.replace(day=1, hour=0, minute=0, second=0, microsecond=0) of the
\* instant t, for t on or after the first month start
first_of_month(t) ==
    LET d == t \div SecondsPerDay
        m == CHOOSE m \in MonthStarts :
                 m <= d /\ \A k \in MonthStarts : k <= d => k <= m
    IN  m * SecondsPerDay

\* cycle_start of create_billing_cycle at clock t
cycle_start_at(t) == first_of_month(t)

\* cycle_end of create_billing_cycle at clock t:
\* (cycle_start + timedelta(days=32)).replace(day=1) - timedelta(seconds=1)
cycle_end_at(t) == first_of_month(cycle_start_at(t) + 32 * SecondsPerDay) - 1

\* Timestamps are stored and compared as text.  A text is modelled by its
\* parts in reading order: the date 'YYYY-MM-DD' (as day number), the
\* separator character, the time 'HH:MM:SS' (as second of the day) and the
\* fraction '.ffffff' (0 when the text has none).

\* SQLite CURRENT_TIMESTAMP at clock t: 'YYYY-MM-DD HH:MM:SS'
CURRENT_TIMESTAMP(t) ==
    [date |-> t \div SecondsPerDay, sep |-> " ", time |-> t % SecondsPerDay,
     frac |-> 0]

\* datetime.isoformat() of the instant t with that microsecond:
\* 'YYYY-MM-DDTHH:MM:SS', followed by '.ffffff' when microsecond is not 0
isoformat(t, microsecond) ==
    [date |-> t \div SecondsPerDay, sep |-> "T", time |-> t % SecondsPerDay,
     frac |-> microsecond]

\* the byte of a separator character
separator_byte(c) == IF c = " " THEN 32 ELSE 84

\* a <= b for two TEXT values in SQLite (BINARY collation: memcmp, a text
\* that is a prefix of another is smaller)
text_leq(a, b) ==
    \/ a.date < b.date
    \/ /\ a.date = b.date
       /\ \/ separator_byte(a.sep) < separator_byte(b.sep)
          \/ /\ a.sep = b.sep
             /\ \/ a.time < b.time
                \/ a.time = b.time /\ a.frac <= b.frac

\* does the try block of BillingManager.track_usage reach conn.commit():
\* the user has a row (fetchone() is not None), its plan is in
\* PRICING_TIERS, and sqlite raises nothing
track_usage_commits(plans, u, storeFails) ==
    /\ u \in DOMAIN plans
    /\ plans[u] \in DOMAIN PRICING_TIERS
    /\ ~storeFails

\* variant of track_usage: one row per (user, module), updated in place the
\* way _update_database_usage keeps its counters
track_usage_upsert(ledger, plans, u, module, calls, t, storeFails) ==
    LET price == PRICING_TIERS[plans[u]].price_per_call + module_cost(module)
        old == {i \in 1..Len(ledger) :
                   ledger[i].user_id = u /\ ledger[i].module = module}
    IN  IF ~track_usage_commits(plans, u, storeFails) THEN ledger
        ELSE IF old = {}
        THEN Append(ledger, [user_id |-> u, module |-> module,
                             calls_count |-> calls, cost_per_call |-> price,
                             total_cost |-> price * calls,
                             timestamp |-> CURRENT_TIMESTAMP(t)])
        ELSE [i \in 1..Len(ledger) |->
                 IF i \in old
                 THEN [ledger[i] EXCEPT !.calls_count = @ + calls,
                                        !.total_cost = @ + price * calls]
                 ELSE ledger[i]]

\* BillingManager.track_usage at clock t: the rows of usage_stats after the
\* call.  Every exception of the try block is logged and rolled back, and
\* the method returns None either way.
track_usage(ledger, plans, u, module, calls, t, storeFails) ==
    IF track_usage_commits(plans, u, storeFails)
    THEN LET total_cost_per_call ==
                 PRICING_TIERS[plans[u]].price_per_call + module_cost(module)
         IN  Append(ledger, [user_id |-> u, module |-> module,
                             calls_count |-> calls,
                             cost_per_call |-> total_cost_per_call,
                             total_cost |-> total_cost_per_call * calls,
                             timestamp |-> CURRENT_TIMESTAMP(t)])
    ELSE ledger

\* variant of upgrade_plan_result: the plan name is not validated
upgrade_plan_result_unvalidated(plans, u, new_plan, storeFails) ==
    IF storeFails THEN "HTTP500"
    ELSE IF u \in DOMAIN plans THEN "True" ELSE "False"

\* BillingManager.upgrade_plan: what the caller gets
upgrade_plan_result(plans, u, new_plan, storeFails) ==
    IF new_plan \notin DOMAIN PRICING_TIERS THEN "HTTP400"
    ELSE IF storeFails THEN "HTTP500"
    ELSE IF u \in DOMAIN plans THEN "True" ELSE "False"

\* BillingManager.upgrade_plan: table users after the call
upgrade_plan(plans, u, new_plan, storeFails) ==
    IF upgrade_plan_result(plans, u, new_plan, storeFails) = "True"
    THEN [plans EXCEPT ![u] = new_plan]
    ELSE plans

\* SQL SUM(calls_count) and SUM(total_cost) over rows of usage_stats
RECURSIVE sum_calls_count(_)
sum_calls_count(rows) ==
    IF rows = <<>> THEN 0
    ELSE Head(rows).calls_count + sum_calls_count(Tail(rows))

RECURSIVE sum_total_cost(_)
sum_total_cost(rows) ==
    IF rows = <<>> THEN 0
    ELSE Head(rows).total_cost + sum_total_cost(Tail(rows))

\* variant of rows_of_user: the WHERE clause is left out
rows_of_anyone(ledger, u) == ledger

\* the rows of usage_stats with that user_id
rows_of_user(ledger, u) == SelectSeq(ledger, LAMBDA e : e.user_id = u)

\* the result rows of "SELECT module, SUM(calls_count), SUM(total_cost) ...
\* WHERE user_id = ? GROUP BY module": one row per module of the user
usage_data(ledger, u) ==
    LET mine == rows_of_user(ledger, u)
        modules == {mine[i].module : i \in 1..Len(mine)}
    IN  [m \in modules |->
            LET grp == SelectSeq(mine, LAMBDA e : e.module = m)
            IN  [calls |-> sum_calls_count(grp), cost |-> sum_total_cost(grp)]]

\* Python sum(row[1] for row in usage_data) and sum(row[2] for ...)
RECURSIVE sum_groups(_, _, _)
sum_groups(data, modules, field) ==
    IF modules = {} THEN 0
    ELSE LET m == CHOOSE m \in modules : TRUE
         IN  (IF field = "calls" THEN data[m].calls ELSE data[m].cost)
                 + sum_groups(data, modules \ {m}, field)

\* BillingManager.get_user_usage(u) with start_date = end_date = None.
\* fetchone()[0] raises TypeError when the user has no row, and
\* PRICING_TIERS[user_plan] raises KeyError for a plan that is not a tier;
\* the method lets both out.
get_user_usage(ledger, plans, u) ==
    LET data == usage_data(ledger, u)
        total_calls == sum_groups(data, DOMAIN data, "calls")
        total_cost == sum_groups(data, DOMAIN data, "cost")
    IN  IF u \notin DOMAIN plans
        THEN [outcome |-> "TypeError", plan |-> "none", usage_by_module |-> data,
              total_calls |-> 0, total_cost |-> 0, remaining_calls |-> 0]
        ELSE IF plans[u] \notin DOMAIN PRICING_TIERS
        THEN [outcome |-> "KeyError", plan |-> "none", usage_by_module |-> data,
              total_calls |-> 0, total_cost |-> 0, remaining_calls |-> 0]
        ELSE [outcome |-> "usage", plan |-> plans[u], usage_by_module |-> data,
              total_calls |-> total_calls, total_cost |-> total_cost,
              remaining_calls |->
                  IF PRICING_TIERS[plans[u]].monthly_calls > total_calls
                  THEN PRICING_TIERS[plans[u]].monthly_calls - total_calls
                  ELSE 0]

\* variant of create_billing_cycle: the row is written with the default
\* plan of table users
create_billing_cycle_default_plan(cycles, u, plan, t, storeFails) ==
    IF storeFails THEN cycles
    ELSE Append(cycles, [id |-> Len(cycles) + 1, user_id |-> u,
                         cycle_start |-> isoformat(cycle_start_at(t), 0),
                         cycle_end |-> isoformat(cycle_end_at(t), 0),
                         total_calls |-> 0, total_cost |-> 0,
                         plan |-> "free", status |-> "active"])

\* BillingManager.create_billing_cycle(u, plan) at clock t: table
\* billing_cycles after the call.  lastrowid is the row's position; a
\* failing INSERT is rolled back and raised as HTTP 500.
create_billing_cycle(cycles, u, plan, t, storeFails) ==
    IF storeFails THEN cycles
    ELSE Append(cycles, [id |-> Len(cycles) + 1, user_id |-> u,
                         cycle_start |-> isoformat(cycle_start_at(t), 0),
                         cycle_end |-> isoformat(cycle_end_at(t), 0),
                         total_calls |-> 0, total_cost |-> 0,
                         plan |-> plan, status |-> "active"])

\* BillingManager.get_current_billing_cycle(u) at clock t: the id of the
\* first row the SELECT yields (rows come in rowid order), 0 for None
get_current_billing_cycle(cycles, u, t, microsecond) ==
    LET current == {i \in 1..Len(cycles) :
                       /\ cycles[i].user_id = u
                       /\ text_leq(cycles[i].cycle_start, isoformat(t, microsecond))
                       /\ text_leq(isoformat(t, microsecond), cycles[i].cycle_end)
                       /\ cycles[i].status = "active"}
    IN  IF current = {} THEN 0
        ELSE CHOOSE i \in current : \A j \in current : i <= j

\* GET /api/billing/current-cycle for user u on plan `plan`: table
\* billing_cycles after the request
current_cycle_rows(cycles, u, plan, t, microsecond, storeFails) ==
    IF get_current_billing_cycle(cycles, u, t, microsecond) # 0 THEN cycles
    ELSE create_billing_cycle(cycles, u, plan, t, storeFails)

\* GET /api/billing/current-cycle: what the request returns, the cycle
\* found, else the cycle found after create_billing_cycle (null when there
\* is none); every exception becomes HTTP 500
current_cycle_response(cycles, u, plan, t, microsecond, storeFails) ==
    LET found == get_current_billing_cycle(cycles, u, t, microsecond)
        rows == current_cycle_rows(cycles, u, plan, t, microsecond, storeFails)
        again == get_current_billing_cycle(rows, u, t, microsecond)
    IN  IF found # 0 THEN [outcome |-> "cycle", id |-> found]
        ELSE IF storeFails THEN [outcome |-> "HTTP500", id |-> 0]
        ELSE IF again # 0 THEN [outcome |-> "cycle", id |-> again]
        ELSE [outcome |-> "null", id |-> 0]

\* the rows of usage_stats that calculate_bill sums for a cycle row:
\* user_id = ? AND timestamp BETWEEN cycle_start AND cycle_end
rows_between(ledger, u, cycle_row) ==
    SelectSeq(ledger, LAMBDA e :
        /\ e.user_id = u
        /\ text_leq(cycle_row.cycle_start, e.timestamp)
        /\ text_leq(e.timestamp, cycle_row.cycle_end))

\* variant of calculate_bill: the cycle is looked up by id alone
calculate_bill_any_owner(cycles, ledger, u, cycle_id) ==
    IF cycle_id \notin 1..Len(cycles)
    THEN [outcome |-> "HTTP404", billing_cycle_id |-> 0, user_id |-> 0,
          plan |-> "none", monthly_fee |-> 0, usage_cost |-> 0,
          total_calls |-> 0, total_bill |-> 0]
    ELSE LET cycle_row == cycles[cycle_id]
             used == rows_between(ledger, u, cycle_row)
             monthly_fee == PRICING_TIERS[cycle_row.plan].monthly_fee
         IN  [outcome |-> "bill", billing_cycle_id |-> cycle_id,
              user_id |-> u, plan |-> cycle_row.plan,
              monthly_fee |-> monthly_fee,
              usage_cost |-> sum_total_cost(used),
              total_calls |-> sum_calls_count(used),
              total_bill |-> monthly_fee + sum_total_cost(used)]

\* BillingManager.calculate_bill(u, cycle_id): the bill, or HTTP 404 when
\* no row has that id and that user_id; PRICING_TIERS[plan] raises KeyError
\* for a recorded plan that is not a tier
calculate_bill(cycles, ledger, u, cycle_id) ==
    IF cycle_id \notin 1..Len(cycles) \/ cycles[cycle_id].user_id # u
    THEN [outcome |-> "HTTP404", billing_cycle_id |-> 0, user_id |-> 0,
          plan |-> "none", monthly_fee |-> 0, usage_cost |-> 0,
          total_calls |-> 0, total_bill |-> 0]
    ELSE IF cycles[cycle_id].plan \notin DOMAIN PRICING_TIERS
    THEN [outcome |-> "KeyError", billing_cycle_id |-> 0, user_id |-> 0,
          plan |-> "none", monthly_fee |-> 0, usage_cost |-> 0,
          total_calls |-> 0, total_bill |-> 0]
    ELSE LET cycle_row == cycles[cycle_id]
             used == rows_between(ledger, u, cycle_row)
             total_calls == sum_calls_count(used)
             total_cost == sum_total_cost(used)
             monthly_fee == PRICING_TIERS[cycle_row.plan].monthly_fee
         IN  [outcome |-> "bill", billing_cycle_id |-> cycle_id,
              user_id |-> u, plan |-> cycle_row.plan,
              monthly_fee |-> monthly_fee, usage_cost |-> total_cost,
              total_calls |-> total_calls,
              total_bill |-> monthly_fee + total_cost]

\* BillingManager.process_payment(u, amount, payment_method) at clock t:
\* table payments after the call; a failing INSERT is rolled back and
\* raised as HTTP 500
process_payment(pay, u, amount, payment_method, t, microsecond, storeFails) ==
    IF storeFails THEN pay
    ELSE Append(pay, [id |-> Len(pay) + 1, user_id |-> u, amount |-> amount,
                      payment_method |-> payment_method,
                      status |-> "completed",
                      processed_at |-> isoformat(t, microsecond)])

----------------------------------------------------------------------------
(* api/main.py and api/routers *)

\* the request paths the model sends
Endpoints == {"/api/growth_advisory/analyze", "/api/growth_advisory/models",
              "/api/billing/usage"}

\* request.url.path.split("/")[2]
path_module(path) ==
    IF path \in {"/api/growth_advisory/analyze", "/api/growth_advisory/models"}
    THEN "growth_advisory" ELSE "billing"

\* the credential kinds of a request: an API key, or a JWT of the user
Credentials == {"api_key", "jwt"}

\* track_api_usage of the HTTP middleware: the rows of usage_stats after
\* it ran for a request of user u.  get_user_by_api_key finds a user only
\* when the bearer token is an API key; every exception is logged.
track_api_usage(ledger, plans, u, cred, path, t, storeFails) ==
    IF cred = "api_key"
    THEN track_usage(ledger, plans, u, path_module(path), 1, t, storeFails)
    ELSE ledger

\* the body of analyze_growth_opportunities for user u on plan `plan`:
\* check_rate_limit, on Allowed the three increment_usage calls, the module
\* call, then track_usage.  An HTTPException is re-raised, any other
\* exception becomes APIResponse(success=False).
analyze_growth_opportunities(rows, c, ts, ledger, plans, u, plan, t, storeFails, moduleFails) ==
    LET rl == check_rate_limit(rows, c, ts, u, plan, t)
        c3 == increment_cache(
                  increment_cache(
                      increment_cache(rl.cache, u, "requests_per_minute", 1),
                      u, "requests_per_hour", 1),
                  u, "requests_per_day", 1)
        ts3 == increment_timestamp(
                   increment_timestamp(
                       increment_timestamp(rl.ts, u, "requests_per_minute", t),
                       u, "requests_per_hour", t),
                   u, "requests_per_day", t)
        rows3 == update_database_usage(
                     update_database_usage(
                         update_database_usage(rows, u, "requests_per_minute",
                                               1, t, storeFails),
                         u, "requests_per_hour", 1, t, storeFails),
                     u, "requests_per_day", 1, t, storeFails)
        info == [window_type |-> rl.window_type, limit |-> rl.limit,
                 current |-> rl.current, reset_time |-> rl.reset_time]
    IN  IF rl.outcome = "HTTP400"
        THEN [result |-> "HTTP400", rate |-> rl.outcome, info |-> info,
              cache |-> rl.cache, ts |-> rl.ts, rows |-> rows,
              ledger |-> ledger]
        ELSE IF rl.outcome = "denied"
        THEN [result |-> "HTTP429", rate |-> rl.outcome, info |-> info,
              cache |-> rl.cache, ts |-> rl.ts, rows |-> rows,
              ledger |-> ledger]
        ELSE IF rl.outcome = "ValueError"
        THEN [result |-> "failed", rate |-> rl.outcome, info |-> info,
              cache |-> rl.cache, ts |-> rl.ts, rows |-> rows,
              ledger |-> ledger]
        ELSE IF moduleFails
        THEN [result |-> "failed", rate |-> rl.outcome, info |-> info,
              cache |-> c3, ts |-> ts3, rows |-> rows3, ledger |-> ledger]
        ELSE [result |-> "success", rate |-> rl.outcome, info |-> info,
              cache |-> c3, ts |-> ts3, rows |-> rows3,
              ledger |-> track_usage(ledger, plans, u, "growth_advisory", 1, t,
                                     storeFails)]

----------------------------------------------------------------------------
(* State after construction: RateLimiter.__init__ leaves both defaultdicts  *)
(* empty (a missing key reads as 0 / 0.0), the tables are empty, and every  *)
(* registered user is on the default plan of table users.                   *)

(* src/morngpt/core.py, src/morngpt/modules/base.py *)

\* the default of the model_version parameter of MornGPT.get_submodule
\* and MornGPT.process_request
DefaultModelVersion == 1

\* the condition "1 <= version <= 9" of set_model_version and upgrade_model
version_in_range(version) == 1 <= version /\ version <= 9

\* MornGPT.get_module and BaseModule.get_submodule find the submodule
submodule_found(module_code, submodule_id) ==
    /\ module_code \in ModuleCodes
    /\ submodule_id \in 1..9
    /\ submodule_id \in SubmoduleIds

\* BaseSubmodule.set_model_version(version): the stored versions after it
set_model_version(versions, module_code, submodule_id, version) ==
    IF version_in_range(version)
    THEN [versions EXCEPT ![module_code][submodule_id] = version]
    ELSE versions

\* MornGPT.get_submodule(module_code, submodule_id, model_version): the
\* outcome and the stored versions after it
get_submodule(versions, module_code, submodule_id, version) ==
    IF ~submodule_found(module_code, submodule_id)
    THEN [outcome |-> "ValueError", versions |-> versions]
    ELSE IF ~version_in_range(version)
    THEN [outcome |-> "ValueError", versions |-> versions]
    ELSE [outcome |-> "submodule",
          versions |-> set_model_version(versions, module_code,
                                         submodule_id, version)]

\* MornGPT.get_model_info(module_code, submodule_id): current_version
get_model_info(versions, module_code, submodule_id) ==
    IF ~submodule_found(module_code, submodule_id)
    THEN [outcome |-> "ValueError", current_version |-> 0]
    ELSE [outcome |-> "info",
          current_version |-> versions[module_code][submodule_id]]

\* MornGPT.upgrade_model(module_code, submodule_id, target_version): the
\* outcome, the old version it reports and the stored versions after it
upgrade_model(versions, module_code, submodule_id, target_version) ==
    IF ~version_in_range(target_version)
    THEN [outcome |-> "ValueError", old_version |-> 0, versions |-> versions]
    ELSE IF ~submodule_found(module_code, submodule_id)
    THEN [outcome |-> "ValueError", old_version |-> 0, versions |-> versions]
    ELSE [outcome |-> "success",
          old_version |-> versions[module_code][submodule_id],
          versions |-> [versions EXCEPT
                            ![module_code][submodule_id] = target_version]]

-----------------------------------------------------------------------------
NoCall ==
    [op |-> "none", user |-> 0, arg |-> "none", count |-> 0,
     outcome |-> "none", window_type |-> "none", limit |-> 0, current |-> 0,
     reset_time |-> 0, observed |-> 0, pre |-> 0, preTs |-> 0, at |-> 0,
     dbok |-> FALSE, appended |-> 0, ret |-> [outcome |-> "none"],
     submodule |-> 0, version |-> 0, given |-> FALSE]

NoBill ==
    [user |-> 0, cycle |-> 0, events |-> 0, repeat |-> FALSE,
     bill |-> calculate_bill(<<>>, <<>>, 0, 0)]

NewRequest ==
    [pc |-> "idle", user |-> 0, cred |-> "none", endpoint |-> "none",
     plan |-> "none", result |-> "none", rate |-> "none",
     info |-> [window_type |-> "none", limit |-> 0, current |-> 0,
               reset_time |-> 0],
     events |-> 0, served |-> 0, at |-> 0]

Constructed ==
    /\ cache = [u \in UserArgs |-> [w \in WindowKeys |-> 0]]
    /\ cache_timestamps = [u \in UserArgs |-> [w \in WindowKeys |-> 0]]
    /\ rate_limits = <<>>
    /\ users = [u \in Users |-> "free"]
    /\ usage_stats = <<>>
    /\ billing_cycles = <<>>
    /\ payments = <<>>
    /\ billed = NoBill
    /\ req = [r \in 1..MaxReq |-> NewRequest]
    /\ issued = [u \in UserArgs |-> [w \in WindowKeys |-> [n |-> 0, first |-> 0]]]
    /\ last = NoCall
    /\ model_version = [m \in ModuleCodes |-> [i \in SubmoduleIds |-> 1]]
    /\ upgraded = [m \in ModuleCodes |-> [i \in SubmoduleIds |-> 0]]
    /\ nops = 0
    /\ nticks = 0

Init == now = InitNow /\ Constructed

\* the rate limiter is constructed at any of the clocks WindowClocks
InitWindow == now \in WindowClocks /\ Constructed

\* the billing manager is constructed at any of the clocks BillingClocks
InitBilling == now \in BillingClocks /\ Constructed

(* Granularity.  The endpoints are coroutines on one event loop and the     *)
(* methods of RateLimiter and BillingManager contain no await, so a method  *)
(* call, and the endpoint body around it, runs without interleaving; the    *)
(* middleware yields at call_next, between track_api_usage and the          *)
(* endpoint.  A durable write either commits as a whole or raises inside    *)
(* the try block (storeFails), where the code logs and rolls back.          *)

\* the clock advances
Tick(d) ==
    /\ nticks < MaxTicks
    /\ now' = now + d
    /\ nticks' = nticks + 1
    /\ UNCHANGED <<model_version, upgraded, cache, cache_timestamps, rate_limits, users, usage_stats,
                   billing_cycles, payments, req, issued, last, billed, nops>>

\* a caller runs rate_limiter.check_rate_limit(u, plan)
CheckRateLimit(u, plan) ==
    LET r == check_rate_limit(rate_limits, cache, cache_timestamps, u, plan, now)
    IN  /\ nops < MaxOps
        /\ nops' = nops + 1
        /\ cache' = r.cache
        /\ cache_timestamps' = r.ts
        /\ last' = [NoCall EXCEPT !.op = "check_rate_limit", !.user = u,
                        !.arg = plan, !.outcome = r.outcome,
                        !.window_type = r.window_type, !.limit = r.limit,
                        !.current = r.current, !.reset_time = r.reset_time,
                        !.observed = IF r.usage = <<>> THEN 0 - 1
                                     ELSE r.usage[1].current,
                        !.at = now,
                        !.pre = cache[u]["requests_per_minute"],
                        !.preTs = cache_timestamps[u]["requests_per_minute"]]
        /\ UNCHANGED <<model_version, upgraded, now, rate_limits, users, usage_stats, billing_cycles,
                       payments, req, issued, billed, nticks>>

\* a caller runs rate_limiter._get_window_start(window_type)
GetWindowStart(window_type) ==
    LET ws == get_window_start(window_type, now)
    IN  /\ nops < MaxOps
        /\ nops' = nops + 1
        /\ last' = [NoCall EXCEPT !.op = "_get_window_start",
                        !.arg = window_type, !.at = now, !.observed = ws,
                        !.outcome = IF ws = ValueError THEN "ValueError"
                                    ELSE "datetime"]
        /\ UNCHANGED <<model_version, upgraded, now, cache, cache_timestamps, rate_limits, users,
                       usage_stats, billing_cycles, payments, req, issued,
                       billed, nticks>>

\* a caller runs rate_limiter.get_user_usage_stats(u, plan)
GetUserUsageStats(u, plan) ==
    LET r == get_user_usage_stats(rate_limits, cache, cache_timestamps, u, plan,
                                  now)
    IN  /\ nops < MaxOps
        /\ nops' = nops + 1
        /\ cache' = r.cache
        /\ cache_timestamps' = r.ts
        /\ last' = [NoCall EXCEPT !.op = "get_user_usage_stats", !.user = u,
                        !.arg = plan, !.outcome = r.outcome, !.at = now,
                        !.ret = [outcome |-> r.outcome, stats |-> r.stats]]
        /\ UNCHANGED <<model_version, upgraded, now, rate_limits, users, usage_stats, billing_cycles,
                       payments, req, issued, billed, nticks>>

\* a caller runs rate_limiter.increment_usage(u, window_type, count); the
\* method has no return statement and lets no exception out
IncrementUsage(u, window_type, count, storeFails) ==
    /\ nops < MaxOps
    /\ nops' = nops + 1
    /\ cache' = increment_cache(cache, u, window_type, count)
    /\ cache_timestamps' = increment_timestamp(cache_timestamps, u, window_type, now)
    /\ rate_limits' = update_database_usage(rate_limits, u, window_type, count,
                                            now, storeFails)
    /\ issued' = [issued EXCEPT ![u][window_type] =
                    [n |-> @.n + count,
                     first |-> IF @.n = 0 THEN now ELSE @.first]]
    /\ last' = [NoCall EXCEPT !.op = "increment_usage", !.user = u,
                    !.arg = window_type, !.count = count, !.outcome = "None",
                    !.at = now,
                    !.pre = cache[u][window_type],
                    !.preTs = cache_timestamps[u][window_type],
                    !.dbok = DurableWriteOk(window_type, now, storeFails)]
    /\ UNCHANGED <<model_version, upgraded, now, users, usage_stats, billing_cycles, payments, req,
                   billed, nticks>>

\* a caller runs rate_limiter.reset_user_limits(u); a failed DELETE is
\* logged and rolled back
ResetUserLimits(u, storeFails) ==
    /\ nops < MaxOps
    /\ nops' = nops + 1
    /\ cache' = [cache EXCEPT ![u] = [w \in WindowKeys |-> 0]]
    /\ rate_limits' = IF storeFails THEN rate_limits
                      ELSE delete_user_rows(rate_limits, u)
    /\ issued' = [issued EXCEPT ![u] = [w \in WindowKeys |-> [n |-> 0, first |-> 0]]]
    /\ last' = [NoCall EXCEPT !.op = "reset_user_limits", !.user = u,
                    !.outcome = "None", !.at = now, !.dbok = ~storeFails]
    /\ UNCHANGED <<model_version, upgraded, now, cache_timestamps, users, usage_stats, billing_cycles,
                   payments, req, billed, nticks>>

\* a caller runs billing_manager.track_usage(u, module, calls)
TrackUsage(u, module, calls, storeFails) ==
    /\ nops < MaxOps
    /\ nops' = nops + 1
    /\ usage_stats' = track_usage(usage_stats, users, u, module, calls, now,
                                  storeFails)
    /\ last' = [NoCall EXCEPT !.op = "track_usage", !.user = u,
                    !.arg = module, !.count = calls, !.outcome = "None",
                    !.at = now,
                    !.dbok = track_usage_commits(users, u, storeFails),
                    !.appended = Len(usage_stats') - Len(usage_stats)]
    /\ UNCHANGED <<model_version, upgraded, now, cache, cache_timestamps, rate_limits, users,
                   billing_cycles, payments, req, issued, billed, nticks>>

\* a caller runs billing_manager.upgrade_plan(u, new_plan)
UpgradePlan(u, new_plan, storeFails) ==
    /\ nops < MaxOps
    /\ nops' = nops + 1
    /\ users' = upgrade_plan(users, u, new_plan, storeFails)
    /\ last' = [NoCall EXCEPT !.op = "upgrade_plan", !.user = u,
                    !.arg = new_plan, !.at = now,
                    !.outcome = upgrade_plan_result(users, u, new_plan,
                                                    storeFails),
                    !.dbok = ~storeFails]
    /\ UNCHANGED <<model_version, upgraded, now, cache, cache_timestamps, rate_limits, usage_stats,
                   billing_cycles, payments, req, issued, billed, nticks>>

\* a caller runs billing_manager.get_user_usage(u)
GetUserUsage(u) ==
    LET r == get_user_usage(usage_stats, users, u)
    IN  /\ nops < MaxOps
        /\ nops' = nops + 1
        /\ last' = [NoCall EXCEPT !.op = "get_user_usage", !.user = u,
                        !.outcome = r.outcome, !.at = now, !.ret = r]
        /\ UNCHANGED <<model_version, upgraded, now, cache, cache_timestamps, rate_limits, users,
                       usage_stats, billing_cycles, payments, req, issued,
                       billed, nticks>>

\* GET /api/billing/current-cycle of user u: get_current_user reads the
\* user's row, then the endpoint runs get_current_billing_cycle and, when
\* it found none, create_billing_cycle and get_current_billing_cycle again
CurrentCycle(u, microsecond, storeFails) ==
    LET r == current_cycle_response(billing_cycles, u, users[u], now,
                                    microsecond, storeFails)
    IN  /\ nops < MaxOps
        /\ nops' = nops + 1
        /\ billing_cycles' = current_cycle_rows(billing_cycles, u, users[u],
                                                now, microsecond, storeFails)
        /\ last' = [NoCall EXCEPT !.op = "current_cycle", !.user = u,
                        !.outcome = r.outcome, !.at = now,
                        !.count = microsecond, !.dbok = ~storeFails,
                        !.ret = r]
        /\ UNCHANGED <<model_version, upgraded, now, cache, cache_timestamps, rate_limits, users,
                       usage_stats, payments, req, issued, billed, nticks>>

\* variant of CalculateBill: the call is metered like a module call
CalculateBill_metered(u, cycle_id) ==
    LET r == calculate_bill(billing_cycles, usage_stats, u, cycle_id)
    IN  /\ nops < MaxOps
        /\ nops' = nops + 1
        /\ usage_stats' = track_usage(usage_stats, users, u, "billing", 1, now,
                                      FALSE)
        /\ last' = [NoCall EXCEPT !.op = "calculate_bill", !.user = u,
                        !.count = cycle_id, !.outcome = r.outcome,
                        !.at = now, !.ret = r]
        /\ billed' = [billed EXCEPT !.user = u, !.cycle = cycle_id,
                                    !.bill = r]
        /\ UNCHANGED <<model_version, upgraded, now, cache, cache_timestamps, rate_limits, users,
                       billing_cycles, payments, req, issued, nticks>>

\* a caller runs billing_manager.calculate_bill(u, cycle_id)
CalculateBill(u, cycle_id) ==
    LET r == calculate_bill(billing_cycles, usage_stats, u, cycle_id)
    IN  /\ nops < MaxOps
        /\ nops' = nops + 1
        /\ last' = [NoCall EXCEPT !.op = "calculate_bill", !.user = u,
                        !.count = cycle_id, !.outcome = r.outcome,
                        !.at = now, !.ret = r]
        /\ billed' = [user |-> u, cycle |-> cycle_id,
                      events |-> Len(usage_stats),
                      repeat |-> /\ billed.user = u
                                 /\ billed.cycle = cycle_id
                                 /\ billed.events = Len(usage_stats)
                                 /\ billed.bill.outcome = "bill",
                      bill |-> r]
        /\ UNCHANGED <<model_version, upgraded, now, cache, cache_timestamps, rate_limits, users,
                       usage_stats, billing_cycles, payments, req, issued,
                       nticks>>

\* a caller runs billing_manager.process_payment(u, amount)
ProcessPayment(u, amount, microsecond, storeFails) ==
    /\ nops < MaxOps
    /\ nops' = nops + 1
    /\ payments' = process_payment(payments, u, amount, "credit_card", now,
                                   microsecond, storeFails)
    /\ last' = [NoCall EXCEPT !.op = "process_payment", !.user = u,
                    !.count = amount, !.at = now, !.dbok = ~storeFails,
                    !.outcome = IF storeFails THEN "HTTP500" ELSE "completed"]
    /\ UNCHANGED <<model_version, upgraded, now, cache, cache_timestamps, rate_limits, users,
                   usage_stats, billing_cycles, req, issued, billed, nticks>>

\* an HTTP request of user u arrives with a valid credential
StartRequest(r, u, cred, path) ==
    /\ req[r].pc = "idle"
    /\ \A q \in 1..(r - 1) : req[q].pc # "idle"
    /\ nops < MaxOps
    /\ nops' = nops + 1
    /\ req' = [req EXCEPT ![r] = [@ EXCEPT !.pc = "middleware", !.user = u,
                                           !.cred = cred, !.endpoint = path]]
    /\ UNCHANGED <<model_version, upgraded, now, cache, cache_timestamps, rate_limits, users,
                   usage_stats, billing_cycles, payments, issued, last, billed,
                   nticks>>

\* add_process_time_header up to call_next: every model path starts with
\* /api/, so track_api_usage runs
Middleware(r, storeFails) ==
    /\ req[r].pc = "middleware"
    /\ usage_stats' = track_api_usage(usage_stats, users, req[r].user,
                                      req[r].cred, req[r].endpoint, now,
                                      storeFails)
    /\ req' = [req EXCEPT ![r] =
                 [@ EXCEPT !.pc = "handler",
                           !.events = @ + Len(usage_stats') - Len(usage_stats)]]
    /\ UNCHANGED <<model_version, upgraded, now, cache, cache_timestamps, rate_limits, users,
                   billing_cycles, payments, issued, last, billed, nops, nticks>>

\* the requests of user u already handled by the analyze endpoint in the
\* minute that contains the clock
ServedThisMinute(u) ==
    Cardinality({q \in 1..MaxReq :
                    /\ req[q].pc = "done"
                    /\ req[q].user = u
                    /\ req[q].endpoint = "/api/growth_advisory/analyze"
                    /\ req[q].at - (req[q].at % SecondsPerMinute)
                           = now - (now % SecondsPerMinute)})

\* get_current_user reads the user's row, then the endpoint of
\* growth_advisory_router runs
HandleAnalyze(r, storeFails, moduleFails) ==
    LET u == req[r].user
        h == analyze_growth_opportunities(rate_limits, cache, cache_timestamps,
                                          usage_stats, users, u, users[u], now,
                                          storeFails, moduleFails)
    IN  /\ req[r].pc = "handler"
        /\ req[r].endpoint = "/api/growth_advisory/analyze"
        /\ cache' = h.cache
        /\ cache_timestamps' = h.ts
        /\ rate_limits' = h.rows
        /\ usage_stats' = h.ledger
        /\ req' = [req EXCEPT ![r] =
                     [@ EXCEPT !.pc = "done", !.plan = users[u],
                               !.result = h.result, !.rate = h.rate,
                               !.info = h.info,
                               !.served = ServedThisMinute(u), !.at = now,
                               !.events = @ + Len(h.ledger) - Len(usage_stats)]]
        /\ UNCHANGED <<model_version, upgraded, now, users, billing_cycles, payments, issued, last,
                       billed, nops, nticks>>

\* the endpoints that neither check the rate limit nor track usage:
\* GET /models of the module router and GET /usage of the billing router
HandleOther(r) ==
    /\ req[r].pc = "handler"
    /\ req[r].endpoint # "/api/growth_advisory/analyze"
    /\ req' = [req EXCEPT ![r] = [@ EXCEPT !.pc = "done", !.result = "success",
                                           !.at = now]]
    /\ UNCHANGED <<model_version, upgraded, now, cache, cache_timestamps, rate_limits, users,
                   usage_stats, billing_cycles, payments, issued, last, billed,
                   nops, nticks>>

\* the standing upgrade of a submodule after a call that passed `version`:
\* a call that names another version explicitly ends it
standing_upgrade(module_code, submodule_id, version, given, outcome) ==
    IF given /\ outcome # "ValueError"
             /\ upgraded[module_code][submodule_id] # version
    THEN [upgraded EXCEPT ![module_code][submodule_id] = 0]
    ELSE upgraded

\* a caller runs morngpt.get_submodule(module_code, submodule_id) or, when
\* `given`, morngpt.get_submodule(module_code, submodule_id, version)
GetSubmodule(module_code, submodule_id, version, given) ==
    LET v == IF given THEN version ELSE DefaultModelVersion
        r == get_submodule(model_version, module_code, submodule_id, v)
    IN  /\ nops < MaxOps
        /\ nops' = nops + 1
        /\ model_version' = r.versions
        /\ upgraded' = standing_upgrade(module_code, submodule_id, v, given,
                                        r.outcome)
        /\ last' = [NoCall EXCEPT !.op = "get_submodule",
                        !.arg = module_code, !.submodule = submodule_id,
                        !.version = v, !.given = given,
                        !.outcome = r.outcome, !.at = now]
        /\ UNCHANGED <<now, cache, cache_timestamps, rate_limits, users,
                       usage_stats, billing_cycles, payments, req, issued,
                       billed, nticks>>

\* a caller runs morngpt.process_request(module_code, submodule_id, request)
\* or, when `given`, the same with model_version = version
ProcessRequest(module_code, submodule_id, version, given) ==
    LET v == IF given THEN version ELSE DefaultModelVersion
        r == get_submodule(model_version, module_code, submodule_id, v)
    IN  /\ nops < MaxOps
        /\ nops' = nops + 1
        /\ model_version' = r.versions
        /\ upgraded' = standing_upgrade(module_code, submodule_id, v, given,
                                        r.outcome)
        /\ last' = [NoCall EXCEPT !.op = "process_request",
                        !.arg = module_code, !.submodule = submodule_id,
                        !.version = v, !.given = given,
                        !.outcome = IF r.outcome = "ValueError"
                                    THEN "ValueError" ELSE "response",
                        !.observed = IF r.outcome = "ValueError" THEN 0
                                     ELSE r.versions[module_code][submodule_id],
                        !.at = now]
        /\ UNCHANGED <<now, cache, cache_timestamps, rate_limits, users,
                       usage_stats, billing_cycles, payments, req, issued,
                       billed, nticks>>

\* a caller runs morngpt.get_model_info(module_code, submodule_id)
GetModelInfo(module_code, submodule_id) ==
    LET r == get_model_info(model_version, module_code, submodule_id)
    IN  /\ nops < MaxOps
        /\ nops' = nops + 1
        /\ last' = [NoCall EXCEPT !.op = "get_model_info",
                        !.arg = module_code, !.submodule = submodule_id,
                        !.outcome = r.outcome,
                        !.observed = r.current_version, !.at = now]
        /\ UNCHANGED <<now, cache, cache_timestamps, rate_limits, users,
                       usage_stats, billing_cycles, payments, req, issued,
                       billed, model_version, upgraded, nticks>>

\* a caller runs morngpt.upgrade_model(module_code, submodule_id, version)
UpgradeModel(module_code, submodule_id, target_version) ==
    LET r == upgrade_model(model_version, module_code, submodule_id,
                           target_version)
    IN  /\ nops < MaxOps
        /\ nops' = nops + 1
        /\ model_version' = r.versions
        /\ upgraded' = IF r.outcome = "success"
                       THEN [upgraded EXCEPT
                                ![module_code][submodule_id] = target_version]
                       ELSE upgraded
        /\ last' = [NoCall EXCEPT !.op = "upgrade_model",
                        !.arg = module_code, !.submodule = submodule_id,
                        !.version = target_version, !.given = TRUE,
                        !.outcome = r.outcome, !.observed = r.old_version,
                        !.at = now]
        /\ UNCHANGED <<now, cache, cache_timestamps, rate_limits, users,
                       usage_stats, billing_cycles, payments, req, issued,
                       billed, nticks>>

ClockAdvances == \E d \in Deltas : Tick(d)

BillingClockAdvances == \E d \in BillingDeltas : Tick(d)

CallCheckRateLimit == \E u \in Callers, plan \in PlanArgs : CheckRateLimit(u, plan)

CallGetWindowStart == \E w \in WindowArgs : GetWindowStart(w)

CallGetUserUsageStats ==
    \E u \in Callers, plan \in {"free", "bogus_plan"} :
        GetUserUsageStats(u, plan)

\* the increment_usage calls the model makes: every window name and
\* quantity with a working store, and one call whose store fails
CallIncrementUsage ==
    \/ \E u \in Callers, w \in WindowArgs, c \in CountArgs :
            IncrementUsage(u, w, c, FALSE)
    \/ \E u \in Callers : IncrementUsage(u, "minute", 1, TRUE)

CallResetUserLimits == \E u \in Callers, f \in BOOLEAN : ResetUserLimits(u, f)

\* the track_usage calls the model makes: the caller with every module and
\* quantity, a second user, a user id without a row, and a failing INSERT
CallTrackUsage ==
    \/ \E u \in Callers, m \in ModuleArgs, n \in {1, 2} : TrackUsage(u, m, n, FALSE)
    \/ \E u \in UserArgs \ Callers : TrackUsage(u, "growth_advisory", 1, FALSE)
    \/ \E u \in Callers : TrackUsage(u, "growth_advisory", 1, TRUE)

CallUpgradePlan ==
    \E u \in Callers, p \in PlanArgs, f \in BOOLEAN : UpgradePlan(u, p, f)

CallGetUserUsage == \E u \in Callers \cup {NoUser} : GetUserUsage(u)

CurrentCycleRequest ==
    \E u \in Callers, us \in Microseconds, f \in BOOLEAN : CurrentCycle(u, us, f)

CallCalculateBill ==
    \E u \in Users, id \in 1..(Len(billing_cycles) + 1) : CalculateBill(u, id)

\* processed_at takes part in no comparison: its microsecond is left at 0
CallProcessPayment ==
    \E u \in Callers, a \in AmountArgs, f \in BOOLEAN : ProcessPayment(u, a, 0, f)

RequestArrives ==
    \E r \in 1..MaxReq, u \in Callers, cred \in Credentials, path \in Endpoints :
        StartRequest(r, u, cred, path)

MiddlewareRuns == \E r \in 1..MaxReq, f \in BOOLEAN : Middleware(r, f)

AnalyzeRuns ==
    \E r \in 1..MaxReq, f \in BOOLEAN, m \in BOOLEAN : HandleAnalyze(r, f, m)

OtherEndpointRuns == \E r \in 1..MaxReq : HandleOther(r)

\* the rate limiter driven through its public methods
Next ==
    \/ ClockAdvances
    \/ CallCheckRateLimit
    \/ CallGetUserUsageStats
    \/ CallIncrementUsage
    \/ CallResetUserLimits

Spec == Init /\ [][Next]_vars

\* the window arithmetic of the rate limiter on its own
NextWindow ==
    \/ ClockAdvances
    \/ CallGetWindowStart

SpecWindow == InitWindow /\ [][NextWindow]_vars

\* the calls of the isolation model: each user of the table runs the rate
\* limiter and the billing manager for its own id
SubjectChecks == \E u \in Users : CheckRateLimit(u, "free")

SubjectIncrements ==
    \E u \in Users, w \in {"minute", "requests_per_minute"} :
        IncrementUsage(u, w, 1, FALSE)

SubjectResets == \E u \in Users, f \in BOOLEAN : ResetUserLimits(u, f)

SubjectTracksUsage == \E u \in Users : TrackUsage(u, "growth_advisory", 1, FALSE)

SubjectUpgrades == \E u \in Users : UpgradePlan(u, "starter", FALSE)

SubjectOpensCycle == \E u \in Users : CurrentCycle(u, 0, FALSE)

\* two users share one rate limiter and one billing manager
NextSubjects ==
    \/ SubjectChecks
    \/ SubjectIncrements
    \/ SubjectResets
    \/ SubjectTracksUsage
    \/ SubjectUpgrades
    \/ SubjectOpensCycle

SpecSubjects == Init /\ [][NextSubjects]_vars

CallGetSubmodule ==
    \E m \in ModuleCodeArgs, i \in SubmoduleIdArgs, v \in VersionArgs,
       g \in BOOLEAN : GetSubmodule(m, i, v, g)

CallProcessRequest ==
    \E m \in ModuleCodeArgs, i \in SubmoduleIdArgs, v \in VersionArgs,
       g \in BOOLEAN : ProcessRequest(m, i, v, g)

CallGetModelInfo ==
    \E m \in ModuleCodeArgs, i \in SubmoduleIdArgs : GetModelInfo(m, i)

CallUpgradeModel ==
    \E m \in ModuleCodeArgs, i \in SubmoduleIdArgs, v \in VersionArgs :
        UpgradeModel(m, i, v)

\* MornGPT driven through its public methods
NextMornGPT ==
    \/ CallGetSubmodule
    \/ CallProcessRequest
    \/ CallGetModelInfo
    \/ CallUpgradeModel

SpecMornGPT == Init /\ [][NextMornGPT]_vars

\* the billing manager driven through its public methods
NextBilling ==
    \/ BillingClockAdvances
    \/ CallTrackUsage
    \/ CallUpgradePlan
    \/ CallGetUserUsage
    \/ CurrentCycleRequest
    \/ CallCalculateBill
    \/ CallProcessPayment
    \/ CallResetUserLimits

SpecBilling == InitBilling /\ [][NextBilling]_vars

\* the HTTP API: requests pass the middleware and their endpoint, while
\* plans are upgraded
NextApi ==
    \/ ClockAdvances
    \/ RequestArrives
    \/ MiddlewareRuns
    \/ AnalyzeRuns
    \/ OtherEndpointRuns
    \/ CallUpgradePlan

SpecApi == Init /\ [][NextApi]_vars


----------------------------------------------------------------------------
(* Vocabulary of the properties *)

\* length of the window a cache key stands for
DurationOf(window_type) ==
    IF window_type \in {"minute", "requests_per_minute"} THEN SecondsPerMinute
    ELSE IF window_type \in {"hour", "requests_per_hour"} THEN SecondsPerHour
    ELSE SecondsPerDay

\* start of the window of that type that contains instant t
WindowOf(window_type, t) == t - (t % DurationOf(window_type))

\* the limit a plan sets on the window a cache key stands for
LimitOf(plan, window_type) ==
    IF window_type \in {"minute", "requests_per_minute"}
        THEN RATE_LIMITS[plan].requests_per_minute
    ELSE IF window_type \in {"hour", "requests_per_hour"}
        THEN RATE_LIMITS[plan].requests_per_hour
    ELSE RATE_LIMITS[plan].requests_per_day

\* the durable count of a subject's window of that type at instant t
DurableCount(u, window_type, t) ==
    SumCounts(rate_limits, u, window_type, WindowOf(window_type, t))

\* the count the cache stands for at instant t: an entry last refreshed in
\* an earlier window is stale and counts as 0
EffectiveCache(u, window_type, t) ==
    IF WindowOf(window_type, cache_timestamps[u][window_type])
           = WindowOf(window_type, t)
    THEN cache[u][window_type] ELSE 0

\* everything recorded for (u, window_type) since the last reset was
\* recorded inside the window that contains instant t
RecordedInside(u, window_type, t) ==
    /\ issued[u][window_type].n > 0
    /\ WindowOf(window_type, issued[u][window_type].first)
           = WindowOf(window_type, t)

\* the instant a timestamp text denotes
InstantOf(text) == text.date * SecondsPerDay + text.time

\* the usage events of subject u that occurred inside a billing cycle,
\* both bounds included
EventsInCycle(u, cycle_row) ==
    SelectSeq(usage_stats, LAMBDA e :
        /\ e.user_id = u
        /\ InstantOf(cycle_row.cycle_start) <= InstantOf(e.timestamp)
        /\ InstantOf(e.timestamp) <= InstantOf(cycle_row.cycle_end))

\* the usage events of subject u, and those of one module
EventsOf(u) == SelectSeq(usage_stats, LAMBDA e : e.user_id = u)

EventsOfModule(u, m) ==
    SelectSeq(usage_stats, LAMBDA e : e.user_id = u /\ e.module = m)

\* the entry of module m in a per-module breakdown, zero when it has none
BreakdownEntry(data, m) ==
    IF m \in DOMAIN data THEN data[m] ELSE [calls |-> 0, cost |-> 0]

\* the durable window rows and the billing cycles of subject u
WindowRowsOf(u) == SelectSeq(rate_limits, LAMBDA r : r.user_id = u)

CyclesOf(u) == SelectSeq(billing_cycles, LAMBDA c : c.user_id = u)

\* the operations that act for one subject
SubjectOps ==
    {"check_rate_limit", "increment_usage", "reset_user_limits",
     "track_usage", "upgrade_plan"}

\* the count of a subject's window at instant t as a check reads it: the
\* cached count when the cache holds one for the window, else the durable
\* count
CountOf(u, window_type, t) ==
    IF EffectiveCache(u, window_type, t) > 0
    THEN EffectiveCache(u, window_type, t)
    ELSE DurableCount(u, window_type, t)

\* the places in LimitOrder of the windows whose count has reached the limit
\* that the plan sets
Exhausted(u, plan, t) ==
    {i \in 1..Len(LimitOrder) :
        CountOf(u, LimitOrder[i], t) >= RATE_LIMITS[plan][LimitOrder[i]]}

----------------------------------------------------------------------------
(* Properties *)

\* C2: for a plan of the catalog, check_rate_limit ends by returning a
\* result, (True, usage) or (False, denial); it never raises.
C2_CheckReturnsResult ==
    (last.op = "check_rate_limit" /\ last.arg \in DOMAIN RATE_LIMITS)
        => last.outcome \in {"allowed", "denied"}

\* C3: the count the cache holds for a (subject, window type) is never
\* greater than the durable count of the subject's current window.
C3_CacheNeverAboveStore ==
    \A u \in Users, w \in WindowKeys :
        EffectiveCache(u, w, now) <= DurableCount(u, w, now)

\* C4: after N record operations of one subject inside one window, N not
\* above the limit, the window's count is exactly N in the durable store
\* and in the cache.
C4_NoLostIncrement ==
    \A u \in Users, w \in WindowKeys :
        (RecordedInside(u, w, now)
            /\ issued[u][w].n <= LimitOf(users[u], w))
        => /\ DurableCount(u, w, now) = issued[u][w].n
           /\ cache[u][w] = issued[u][w].n

\* C5: a record step that takes a window's count above the plan limit is
\* reported to its caller as limit exceeded.
C5_RecordReportsOverLimit ==
    (/\ last.op = "increment_usage"
     /\ cache[last.user][last.arg] > LimitOf(users[last.user], last.arg))
        => last.outcome = "limit_exceeded"

\* C6: when increment_usage runs in a window later than the one in which
\* the cache entry was last refreshed, the old count is not carried over:
\* the entry holds the new increment alone, or is discarded.
C6_StaleCountNotCarried ==
    (/\ last.op = "increment_usage"
     /\ WindowOf(last.arg, last.preTs) < WindowOf(last.arg, last.at))
        => cache[last.user][last.arg] \in {0, last.count}

\* C7: when the durable write of increment_usage fails, the cached count
\* is the same as before the call.
C7_CacheUntouchedOnFailedWrite ==
    (last.op = "increment_usage" /\ ~last.dbok)
        => cache[last.user][last.arg] = last.pre

\* C8: when the minute count reached the plan limit with every record made
\* inside window W, a check_rate_limit made after W has ended observes
\* count 0 and returns Allowed.
C8_RolloverResetsAdmission ==
    (/\ last.op = "check_rate_limit"
     /\ last.arg \in DOMAIN RATE_LIMITS
     /\ last.pre = LimitOf(last.arg, "requests_per_minute")
     /\ issued[last.user]["requests_per_minute"].n = last.pre
     /\ WindowOf("requests_per_minute",
                 issued[last.user]["requests_per_minute"].first)
            = WindowOf("requests_per_minute", last.preTs)
     /\ WindowOf("requests_per_minute", last.preTs)
            < WindowOf("requests_per_minute", last.at))
        => (last.outcome = "allowed" /\ last.observed = 0)

\* C1: on a plan whose per-minute limit is L, the first L checkAndRecord
\* requests of a subject inside one minute are Allowed and the next one is
\* Denied for the minute window with limit = L and current = L.
C1_FirstLAllowedThenDenied ==
    \A r \in 1..MaxReq :
        (req[r].pc = "done" /\ req[r].endpoint = "/api/growth_advisory/analyze")
        => LET L == RATE_LIMITS[req[r].plan].requests_per_minute
           IN  /\ req[r].served < L => req[r].rate = "allowed"
               /\ req[r].served = L =>
                      /\ req[r].rate = "denied"
                      /\ req[r].info.window_type = "requests_per_minute"
                      /\ req[r].info.limit = L
                      /\ req[r].info.current = L

\* C9: track_usage never returns normally without having appended the
\* usage event.
C9_TrackUsageNeverSilent ==
    (last.op = "track_usage" /\ last.outcome = "None") => last.appended = 1

\* C10: every request to a metered module that completes successfully has
\* appended exactly one usage event, whatever the credential kind.
C10_ExactlyOneEventPerRequest ==
    \A r \in 1..MaxReq :
        (/\ req[r].pc = "done"
         /\ path_module(req[r].endpoint) \in DOMAIN MODULE_PRICING
         /\ req[r].result = "success")
        => req[r].events = 1

\* C11: a usage event is appended for a request only after its metered
\* module action completed successfully: a request in flight, a denied or
\* failed request, and a request to a non-module endpoint have appended none.
C11_EventOnlyAfterSuccessfulAction ==
    \A r \in 1..MaxReq :
        req[r].events > 0
        => /\ req[r].pc = "done"
           /\ req[r].result = "success"
           /\ req[r].endpoint = "/api/growth_advisory/analyze"

\* C12: the bill calculate_bill returns for a cycle has total_bill = the
\* monthly fee of the cycle's plan + the sum of total_cost over exactly the
\* subject's usage events that occurred in [cycle_start, cycle_end], both
\* bounds included, and total_calls = the sum of their calls_count.
C12_BillSumsEventsOfCycle ==
    (last.op = "calculate_bill" /\ last.outcome = "bill")
    => LET cycle_row == billing_cycles[last.count]
           events == EventsInCycle(last.user, cycle_row)
       IN  /\ last.ret.total_bill
                  = PRICING_TIERS[cycle_row.plan].monthly_fee
                        + sum_total_cost(events)
           /\ last.ret.total_calls = sum_calls_count(events)

\* C13: a track_usage(subject, module, quantity) that commits appends one
\* usage event with calls_count = quantity, cost_per_call = price_per_call
\* of the subject's plan + the module price (0.01 for a module that is not
\* in MODULE_PRICING), and total_cost = cost_per_call * quantity.
C13_EventPricedByPlanAndModule ==
    (last.op = "track_usage" /\ last.dbok)
    => /\ last.appended = 1
       /\ LET e == usage_stats[Len(usage_stats)]
              price == PRICING_TIERS[users[last.user]].price_per_call
                           + (IF last.arg \in DOMAIN MODULE_PRICING
                              THEN MODULE_PRICING[last.arg] ELSE 10)
          IN  /\ e.user_id = last.user
              /\ e.module = last.arg
              /\ e.calls_count = last.count
              /\ e.cost_per_call = price
              /\ e.total_cost = price * last.count

\* C13 happens: a subject on the starter plan recorded two calls of a module
\* that has no price of its own
C13_Witness ==
    /\ last.op = "track_usage"
    /\ last.dbok
    /\ last.arg \notin DOMAIN MODULE_PRICING
    /\ last.count = 2
    /\ users[last.user] = "starter"
    /\ usage_stats[Len(usage_stats)].total_cost = 40

\* C14: the usage ledger is append-only: whatever call is made, every usage
\* event written before the call is in the ledger after it, at the same
\* place and with the same fields; a process_payment call changes nothing
\* but table payments, to which it adds at most one record.
C14_LedgerAppendOnly ==
    [][/\ Len(usage_stats') >= Len(usage_stats)
       /\ SubSeq(usage_stats', 1, Len(usage_stats)) = usage_stats
       /\ (last'.op = "process_payment" /\ nops' = nops + 1)
           => /\ UNCHANGED <<model_version, upgraded, usage_stats, billing_cycles, users>>
              /\ Len(payments') \in {Len(payments), Len(payments) + 1}
              /\ SubSeq(payments', 1, Len(payments)) = payments]_vars

\* C14 happens: two usage events were written, then a payment was recorded
C14_Witness ==
    /\ last.op = "process_payment"
    /\ last.outcome = "completed"
    /\ Len(payments) = 1
    /\ Len(usage_stats) = 2
    /\ usage_stats[1].module = usage_stats[2].module

\* C15: get_user_usage(subject) without date bounds changes no state and
\* returns total_calls and total_cost equal to the sums of calls_count and
\* total_cost over all usage events of the subject, which are the sums of
\* its per-module breakdown; the event a track_usage call has just appended
\* is part of what the next get_user_usage of that subject returns.
C15_UsageSummaryIsLedgerSum ==
    [][(last'.op = "get_user_usage" /\ nops' = nops + 1
            /\ last'.outcome = "usage")
       => LET r == last'.ret
              u == last'.user
              ga == BreakdownEntry(r.usage_by_module, "growth_advisory")
              bi == BreakdownEntry(r.usage_by_module, "billing")
          IN  /\ UNCHANGED <<model_version, upgraded, usage_stats, users, billing_cycles, payments,
                             rate_limits, cache, cache_timestamps>>
              /\ r.total_calls = sum_calls_count(EventsOf(u))
              /\ r.total_cost = sum_total_cost(EventsOf(u))
              /\ DOMAIN r.usage_by_module \subseteq ModuleArgs
              /\ r.total_calls = ga.calls + bi.calls
              /\ r.total_cost = ga.cost + bi.cost
              /\ \A m \in ModuleArgs :
                    /\ BreakdownEntry(r.usage_by_module, m).calls
                           = sum_calls_count(EventsOfModule(u, m))
                    /\ BreakdownEntry(r.usage_by_module, m).cost
                           = sum_total_cost(EventsOfModule(u, m))
              /\ (last.op = "track_usage" /\ last.appended = 1
                      /\ last.user = u)
                  => /\ last.arg \in DOMAIN r.usage_by_module
                     /\ r.usage_by_module[last.arg].calls >= last.count
                     /\ r.total_calls >= last.count]_vars

\* C15 happens: a summary was returned to a subject that has an event of
\* two calls while another subject has an event too
C15_Witness ==
    /\ last.op = "get_user_usage"
    /\ last.outcome = "usage"
    /\ last.ret.total_calls = 2
    /\ last.ret.total_cost > 0
    /\ \E i \in 1..Len(usage_stats) : usage_stats[i].user_id # last.user

\* C16: after any interleaving of current-cycle requests of one subject
\* inside one calendar month, the subject has at most one active billing
\* cycle for that month, and every request whose writes were accepted
\* returned a cycle whose [cycle_start, cycle_end] contains the instant of
\* the request.
C16_OneCurrentCyclePerMonth ==
    /\ \A i, j \in 1..Len(billing_cycles) :
          (/\ billing_cycles[i].user_id = billing_cycles[j].user_id
           /\ billing_cycles[i].cycle_start = billing_cycles[j].cycle_start
           /\ billing_cycles[i].status = "active"
           /\ billing_cycles[j].status = "active")
          => i = j
    /\ (last.op = "current_cycle" /\ last.dbok)
       => /\ last.outcome = "cycle"
          /\ billing_cycles[last.ret.id].user_id = last.user
          /\ InstantOf(billing_cycles[last.ret.id].cycle_start) <= last.at
          /\ last.at <= InstantOf(billing_cycles[last.ret.id].cycle_end)

\* C17: calculate_bill is idempotent and read-only: the call changes no
\* stored row, and when the previous calculate_bill was for the same
\* subject and cycle and no usage event was appended since, the call
\* returns the same monthly_fee, usage_cost, total_calls and total_bill.
C17_BillIdempotentReadOnly ==
    [][(last'.op = "calculate_bill" /\ nops' = nops + 1)
       => /\ UNCHANGED <<model_version, upgraded, usage_stats, billing_cycles, payments, users,
                         rate_limits>>
          /\ (/\ billed.user = last'.user
              /\ billed.cycle = last'.count
              /\ billed.events = Len(usage_stats)
              /\ billed.bill.outcome = "bill")
             => /\ last'.ret.outcome = "bill"
                /\ last'.ret.monthly_fee = billed.bill.monthly_fee
                /\ last'.ret.usage_cost = billed.bill.usage_cost
                /\ last'.ret.total_calls = billed.bill.total_calls
                /\ last'.ret.total_bill = billed.bill.total_bill]_vars

\* C17 happens: a bill was calculated a second time for the same subject
\* and cycle with no usage event appended in between
C17_Witness ==
    /\ last.op = "calculate_bill"
    /\ last.outcome = "bill"
    /\ billed.repeat
    /\ billed.bill = last.ret
    /\ billed.bill.billing_cycle_id \in 1..Len(billing_cycles)

\* C18: calculate_bill(subject, cycle_id) returns a bill only when the
\* cycle with that id belongs to the subject; for an unknown id or a cycle
\* of another subject it fails with HTTP 404 and the response carries no
\* plan, fee, usage or total of that cycle.
C18_BillOnlyForOwnCycle ==
    (last.op = "calculate_bill")
    => IF /\ last.count \in 1..Len(billing_cycles)
          /\ billing_cycles[last.count].user_id = last.user
       THEN /\ last.outcome = "bill"
            /\ last.ret.billing_cycle_id = last.count
            /\ last.ret.user_id = last.user
       ELSE /\ last.outcome = "HTTP404"
            /\ last.ret.plan = "none"
            /\ last.ret.monthly_fee = 0
            /\ last.ret.usage_cost = 0
            /\ last.ret.total_calls = 0
            /\ last.ret.total_bill = 0

\* C18 happens: a subject asked for the bill of a cycle of another subject,
\* a cycle on a plan with a monthly fee
C18_Witness ==
    /\ last.op = "calculate_bill"
    /\ last.outcome = "HTTP404"
    /\ last.count \in 1..Len(billing_cycles)
    /\ billing_cycles[last.count].user_id # last.user
    /\ billing_cycles[last.count].plan = "starter"

\* C19: the plan recorded in a billing cycle is the subject's plan at the
\* moment the cycle was created; no call, upgrade_plan included, changes a
\* cycle that exists; and calculate_bill reports the cycle's recorded plan
\* and takes the monthly fee from it.
C19_CyclePlanIsSnapshot ==
    [][/\ Len(billing_cycles') >= Len(billing_cycles)
       /\ SubSeq(billing_cycles', 1, Len(billing_cycles)) = billing_cycles
       /\ Len(billing_cycles') > Len(billing_cycles)
          => billing_cycles'[Len(billing_cycles')].plan
                 = users[billing_cycles'[Len(billing_cycles')].user_id]
       /\ (last'.op = "calculate_bill" /\ nops' = nops + 1
               /\ last'.outcome = "bill")
          => /\ last'.ret.plan = billing_cycles[last'.count].plan
             /\ last'.ret.monthly_fee
                    = PRICING_TIERS[billing_cycles[last'.count].plan].monthly_fee]_vars

\* C19 happens: a bill was calculated for a cycle created on the free plan
\* after the subject had moved to the starter plan
C19_Witness ==
    /\ last.op = "calculate_bill"
    /\ last.outcome = "bill"
    /\ billing_cycles[last.count].plan = "free"
    /\ users[last.user] = "starter"
    /\ last.ret.monthly_fee = 0

\* C20: upgrade_plan(subject, p) with p outside the four tiers fails with
\* HTTP 400 and leaves table users as it was; and in every reachable state
\* the stored plan of every subject is one of the four tiers.
C20_InvalidPlanRejected ==
    /\ [](\A u \in Users :
             users[u] \in {"free", "starter", "professional", "enterprise"})
    /\ [][(last'.op = "upgrade_plan" /\ nops' = nops + 1
               /\ last'.arg \notin {"free", "starter", "professional",
                                     "enterprise"})
          => /\ last'.outcome = "HTTP400"
             /\ users' = users]_vars

\* C20 happens: a subject on the starter plan asked for a plan that does
\* not exist, was refused, and is still on the starter plan
C20_Witness ==
    /\ last.op = "upgrade_plan"
    /\ last.arg = "bogus_plan"
    /\ last.outcome = "HTTP400"
    /\ users[last.user] = "starter"

\* C21: once upgrade_plan(subject, p) has succeeded, a request of the
\* subject that the analyze endpoint handles afterwards is rate-checked
\* against the limits of p: the check ends Allowed or Denied, a denial names
\* the limit p sets on the window, and the request runs on plan p.
C21_UpgradeTakesEffectAtNextRequest ==
    (last.op = "upgrade_plan" /\ last.outcome = "True")
    => \A r \in 1..MaxReq :
          (/\ req[r].pc = "done"
           /\ req[r].endpoint = "/api/growth_advisory/analyze"
           /\ req[r].user = last.user
           /\ req[r].at > last.at)
          => /\ req[r].plan = last.arg
             /\ req[r].rate \in {"allowed", "denied"}
             /\ req[r].rate = "denied"
                => req[r].info.limit = LimitOf(last.arg, req[r].info.window_type)

\* C22: check_rate_limit and get_user_usage_stats called with a plan that is
\* not in the catalog fail with HTTP 400 (no result computed for any other
\* plan) and leave the cache, its timestamps and table rate_limits as they
\* were.
C22_UnknownPlanRejected ==
    [][(/\ last'.op \in {"check_rate_limit", "get_user_usage_stats"}
        /\ nops' = nops + 1
        /\ last'.arg \notin DOMAIN RATE_LIMITS)
       => /\ last'.outcome = "HTTP400"
          /\ UNCHANGED <<model_version, upgraded, cache, cache_timestamps, rate_limits>>]_vars

\* C22 happens: a subject with recorded usage was checked under a plan that
\* does not exist
C22_Witness ==
    /\ last.op \in {"check_rate_limit", "get_user_usage_stats"}
    /\ last.arg = "bogus_plan"
    /\ last.outcome = "HTTP400"
    /\ cache[last.user]["minute"] > 0
    /\ rate_limits # <<>>

\* C23: check_rate_limit for a plan of the catalog returns Allowed exactly
\* when the minute, hour and day counts are all below their limits;
\* otherwise it returns Denied for the first window, in the order minute,
\* hour, day, whose count has reached its limit, with that window's limit
\* and current count.
C23_FinestExhaustedWindowDenies ==
    (last.op = "check_rate_limit" /\ last.arg \in DOMAIN RATE_LIMITS)
    => LET ex == Exhausted(last.user, last.arg, last.at)
       IN  IF ex = {}
           THEN last.outcome = "allowed"
           ELSE LET first == CHOOSE i \in ex : \A j \in ex : i <= j
                IN  /\ last.outcome = "denied"
                    /\ last.window_type = LimitOrder[first]
                    /\ last.limit = RATE_LIMITS[last.arg][LimitOrder[first]]
                    /\ last.current
                           = CountOf(last.user, LimitOrder[first], last.at)

\* C24: the durable count of a (subject, window type, window start) never
\* decreases except by reset_user_limits, and an increment_usage call whose
\* durable write commits adds exactly its increment to the count of the
\* subject's current window; so after a sequence of such calls inside one
\* window the count is the sum of the increments.
C24_DurableCountIsSumOfIncrements ==
    [][/\ ~(last'.op = "reset_user_limits" /\ nops' = nops + 1)
          => \A i \in 1..Len(rate_limits) :
                SumCounts(rate_limits', rate_limits[i].user_id,
                          rate_limits[i].window_type,
                          rate_limits[i].window_start)
                  >= SumCounts(rate_limits, rate_limits[i].user_id,
                               rate_limits[i].window_type,
                               rate_limits[i].window_start)
       /\ (last'.op = "increment_usage" /\ nops' = nops + 1 /\ last'.dbok)
          => SumCounts(rate_limits', last'.user, last'.arg,
                       WindowOf(last'.arg, now))
               = SumCounts(rate_limits, last'.user, last'.arg,
                           WindowOf(last'.arg, now)) + last'.count]_vars

\* C24 happens: two committed increments, of 1 and of 10, were recorded in
\* one minute window, whose single row counts 11
C24_Witness ==
    /\ last.op = "increment_usage"
    /\ last.dbok
    /\ last.arg = "minute"
    /\ issued[last.user]["minute"].n = 11
    /\ DurableCount(last.user, "minute", last.at) = 11

\* C25: in every reachable state table rate_limits holds at most one row for
\* each (subject, window type, window start).
C25_OneRowPerWindow ==
    \A i, j \in 1..Len(rate_limits) :
        (/\ rate_limits[i].user_id = rate_limits[j].user_id
         /\ rate_limits[i].window_type = rate_limits[j].window_type
         /\ rate_limits[i].window_start = rate_limits[j].window_start)
        => i = j

\* C25 happens: a window was incremented twice and holds both increments in
\* its one row, next to the row of another window
C25_Witness ==
    /\ Len(rate_limits) = 2
    /\ \E i \in 1..Len(rate_limits) :
          /\ rate_limits[i].request_count = 11
          /\ issued[rate_limits[i].user_id][rate_limits[i].window_type].n = 11

\* C26: after reset_user_limits(subject) has returned, every cache entry of
\* the subject is zero and table rate_limits holds no count of the subject,
\* also when the durable delete failed.
C26_ResetZeroesEverything ==
    (last.op = "reset_user_limits" /\ last.outcome = "None")
    => /\ \A w \in WindowKeys : cache[last.user][w] = 0
       /\ \A i \in 1..Len(rate_limits) :
             rate_limits[i].user_id = last.user
             => rate_limits[i].request_count = 0

\* C27: for a plan of the catalog, get_user_usage_stats returns one entry
\* for each of the minute, hour and day windows, and the reset_time of each
\* entry, like the reset_time of a Denied result of check_rate_limit, is the
\* end of the window that contains the call (window start + duration) and
\* lies strictly after the time of the call.
C27_ResetTimeIsWindowEnd ==
    /\ (last.op = "get_user_usage_stats" /\ last.arg \in DOMAIN RATE_LIMITS)
       => /\ last.ret.outcome = "stats"
          /\ Len(last.ret.stats) = Len(LimitOrder)
          /\ \A i \in 1..Len(last.ret.stats) :
                LET e == last.ret.stats[i]
                IN  /\ e.reset_time = WindowOf(e.window_type, last.at)
                                          + DurationOf(e.window_type)
                    /\ e.reset_time > last.at
    /\ (last.op = "check_rate_limit" /\ last.outcome = "denied")
       => /\ last.reset_time = WindowOf(last.window_type, last.at)
                                   + DurationOf(last.window_type)
          /\ last.reset_time > last.at

\* C28: for a window type in {minute, hour, day} the window start that
\* _get_window_start returns at instant now satisfies start <= now < start +
\* duration and is its own window start; two calls for one type at instants
\* of the same truncated interval, or at the same instant, return the same
\* start; any other window type is rejected with ValueError.
C28_WindowStartTruncates ==
    /\ [](last.op = "_get_window_start"
          => IF last.arg \in {"minute", "hour", "day"}
             THEN /\ last.outcome = "datetime"
                  /\ last.observed <= last.at
                  /\ last.at < last.observed + DurationOf(last.arg)
                  /\ get_window_start(last.arg, last.observed) = last.observed
             ELSE last.outcome = "ValueError")
    /\ [][(/\ last.op = "_get_window_start"
           /\ last'.op = "_get_window_start"
           /\ last'.arg = last.arg
           /\ last.arg \in {"minute", "hour", "day"}
           /\ last'.at \div DurationOf(last.arg)
                  = last.at \div DurationOf(last.arg))
          => last'.observed = last.observed]_vars

\* C28 happens: the hour window start was asked at 00:58:59 and again one
\* minute later, and the second call returned the start of that hour
C28_Witness ==
    /\ nops >= 2
    /\ last.op = "_get_window_start"
    /\ last.arg = "hour"
    /\ last.at = InitNow + SecondsPerMinute
    /\ last.observed = SecondsPerDay

\* C29: subjects are isolated: a check_rate_limit, increment_usage,
\* reset_user_limits, track_usage or upgrade_plan call made for subject a
\* leaves the cache entries, the durable window rows and counts, the usage
\* events, the billing cycles and the stored plan of every other subject
\* as they were.
C29_SubjectsIsolated ==
    [][\A a \in Users :
          (/\ nops' = nops + 1
           /\ last'.op \in SubjectOps
           /\ last'.user = a)
          => \A b \in UserArgs \ {a} :
                /\ cache'[b] = cache[b]
                /\ cache_timestamps'[b] = cache_timestamps[b]
                /\ WindowRowsOf(b)' = WindowRowsOf(b)
                /\ \A w \in WindowKeys :
                       DurableCount(b, w, now)' = DurableCount(b, w, now)
                /\ EventsOf(b)' = EventsOf(b)
                /\ CyclesOf(b)' = CyclesOf(b)
                /\ b \in Users => users'[b] = users[b]]_vars

\* C29 happens: subject 2 holds a cached count and a durable row of the
\* minute window and subject 1 has just reset its limits with a DELETE
\* that committed
C29_Witness ==
    /\ last.op = "reset_user_limits"
    /\ last.user = 1
    /\ last.dbok
    /\ cache[2]["minute"] = 1
    /\ DurableCount(2, "minute", now) = 1
    /\ WindowRowsOf(1) = <<>>

\* C30: the model_version of every submodule is within 1..9, and a
\* submodule that upgrade_model set to version v keeps model_version v
\* until the next upgrade_model or a call that names another version
\* explicitly: get_submodule, process_request and get_model_info called
\* without a model_version argument leave it at v.
C30_UpgradedVersionStays ==
    \A m \in ModuleCodes, i \in SubmoduleIds :
        /\ model_version[m][i] \in 1..9
        /\ upgraded[m][i] # 0 => model_version[m][i] = upgraded[m][i]

====
